---- MODULE Spec2Model ----
(***************************************************************************)
(* ConcurrencyLimiter (concurrency-limiter.ts): a bounded-concurrency      *)
(* scheduler on a single-threaded promise runtime.                         *)
(*                                                                         *)
(* One step of the model is one run-to-completion piece of JavaScript:     *)
(* a caller's synchronous enqueue call (with the #drain / #run calls it    *)
(* makes, and the task bodies those invoke), the settlement of one task    *)
(* promise by the outside world, or one promise reaction job taken from    *)
(* the head of the microtask queue.                                        *)
(***************************************************************************)
EXTENDS Integers, Sequences, FiniteSets, TLC

\* ---------------------------------------------------------------- bounds
MaxItems == 3
MaxCap == 3
MaxStatsItems == 2
MaxHttpItems == 2
MaxTwoItems == 2
MaxPairItems == 3
MaxFlushItems == 2

Items == 1..MaxItems

\* What a submitted task function does when the limiter invokes it:
\*   "async"  returns a promise that is still pending (settled later),
\*   "throws" throws synchronously instead of returning a promise,
\*   "nest"   calls enqueue on the same limiter from its own body with an
\*            "async" child task, then returns a pending promise.
TaskKinds == {"async", "throws", "nest"}

Outcomes == {"fulfilled", "rejected"}

\* The value carried by the reaction chain after a handler returned nothing.
Undefined == 0

VARIABLES
  maxConcurrent,  \* #maxConcurrent
  activeCount,    \* #activeCount
  queue,          \* #queue: sequence of QueueItem [id, task]; resolve/reject
                  \* of item id settle handle[id]
  microtasks,     \* the runtime's FIFO queue of promise reaction jobs
  work,           \* work[i]: the promise returned by item i's task()
  handle,         \* handle[i]: the promise enqueue returned for item i
  submitted,      \* number of enqueue calls so far (ids are 1..submitted)
  started,        \* ids in the order their task function was invoked
  calls,          \* calls[i]: how often item i's resolve/reject was invoked
  released,       \* released[i]: how often the finally handler of i ran
  waited,         \* ids that an enqueue call left waiting in the queue
  arg,            \* options.maxConcurrent as passed to the constructor
  error,          \* what the constructor threw: "none" or "RangeError"
  message,        \* the thrown error's message, as a sequence of pieces: the
                  \* fixed text, then one character per position
  http,           \* the HttpRequestLimiter around the limiter: #defaultInit,
                  \* inits[i] = the init argument of the request() call
                  \* that made item i,
                  \* closures[i] = the mergedInit that the closure
                  \* () => fetch(input, mergedInit) of item i captured,
                  \* fetched = the calls of fetch so far, in order
  other,          \* a second ConcurrentLimiter instance: its fields and the
                  \* bookkeeping of its items, as one record
  snaps           \* the caller's references to objects the stats getter
                  \* returned: ref[r] is <<>> or <<the object's fields>>,
                  \* same is Object.is(stats1, stats2)

vars == <<maxConcurrent, activeCount, queue, microtasks, work, handle,
          submitted, started, calls, released, waited, arg, error,
          message, http, other, snaps>>

\* Everything but the snapshot objects: the limiter and its bookkeeping.
limiterVars == <<maxConcurrent, activeCount, queue, microtasks, work, handle,
                 submitted, started, calls, released, waited, arg, error,
                 message, http, other>>

\* ---------------------------------------------------------- fetch options
\* A property an object does not have.
Absent == "absent"

\* Header names and values (as in Accept: text/csv, X-Id: 123).
HeaderKeys == {"Accept", "X-Id"}
HeaderValues == {Absent, "text/csv", "123"}

\* The headers property of a RequestInit: not there, a plain object
\* ("record") or a Headers instance, with the name/value pairs it stands for.
NoHeaders == [form |-> Absent, entries |-> [k \in HeaderKeys |-> Absent]]
HeaderSets ==
  {NoHeaders} \cup
    {[form |-> f, entries |-> e] :
       f \in {"record", "Headers"}, e \in [HeaderKeys -> HeaderValues]}

\* RequestInit objects: two plain fields and headers.
EmptyObject == [method |-> Absent, body |-> Absent, headers |-> NoHeaders]
RequestInits ==
  [method : {Absent, "GET", "POST"}, body : {Absent, "x"}, headers : HeaderSets]

\* An optional argument: undefined, or an object.
NoArgument == [kind |-> "undefined", value |-> EmptyObject]
OptionalInits ==
  {NoArgument} \cup {[kind |-> "object", value |-> v] : v \in RequestInits}

\* No wrapper, or a wrapper that has done nothing yet, with #defaultInit d.
HttpWith(d) ==
  [defaultInit |-> d, inits |-> [i \in Items |-> <<>>],
   closures |-> [i \in Items |-> <<>>], fetched |-> <<>>]

NoPromise == [st |-> "none", val |-> Undefined]
Pending == [st |-> "pending", val |-> Undefined]

\* The value (object reference) item i's work settles with: one per task.
ValueOf(i) == i

Job(hop, i, st, val) == [hop |-> hop, item |-> i, st |-> st, val |-> val]

\* ------------------------------------------------- the limiter as a record
\* The synchronous code paths (enqueue -> #drain -> #run -> task body ->
\* enqueue ...) are computed on a record of the state; exc is TRUE while an
\* exception is propagating up the JavaScript stack.
Cur ==
  [maxConcurrent |-> maxConcurrent, activeCount |-> activeCount, queue |-> queue, microtasks |-> microtasks,
   work |-> work, handle |-> handle, submitted |-> submitted,
   started |-> started, calls |-> calls, released |-> released,
   http |-> http, exc |-> FALSE]

RECURSIVE Drain(_)
RECURSIVE Run(_, _)
RECURSIVE EnqueueOp(_, _)

\* Mutant of Run: the slot is claimed after the task was invoked, so a task
\* body that enqueues does not see its own slot counted.
RunCountsAfterInvoke(s, item) ==
  LET s1 == [s EXCEPT !.started = Append(@, item.id)]
  IN  CASE item.task = "throws" ->
             [s1 EXCEPT !.work[item.id] = [st |-> "threw", val |-> Undefined],
                        !.exc = TRUE]
        [] item.task = "nest" ->
             LET s2 == EnqueueOp(s1, "async")
             IN  [s2 EXCEPT !.work[item.id] = Pending,
                            !.activeCount = @ + 1]
        [] item.task = "fetch" ->
             [s1 EXCEPT !.work[item.id] = Pending,
                        !.activeCount = @ + 1,
                        !.http.fetched =
                           Append(@, [id |-> item.id,
                                      init |-> Head(s.http.closures[item.id])])]
        [] OTHER -> [s1 EXCEPT !.work[item.id] = Pending,
                               !.activeCount = @ + 1]

\* #run up to and including item.task(): claim the slot, invoke the task.
\* The .then/.catch/.finally reactions are attached to the returned promise;
\* a task that throws returns none, and the exception leaves #run.
Run(s, item) ==
  LET s1 == [s EXCEPT !.activeCount = @ + 1,
                      !.started = Append(@, item.id)]
  IN  CASE item.task = "throws" ->
             [s1 EXCEPT !.work[item.id] = [st |-> "threw", val |-> Undefined],
                        !.exc = TRUE]
        [] item.task = "nest" ->
             LET s2 == EnqueueOp(s1, "async")
             IN  IF s2.exc
                 THEN [s2 EXCEPT !.work[item.id] =
                                    [st |-> "threw", val |-> Undefined]]
                 ELSE [s2 EXCEPT !.work[item.id] = Pending]
        [] item.task = "fetch" ->
             [s1 EXCEPT !.work[item.id] = Pending,
                        !.http.fetched =
                           Append(@, [id |-> item.id,
                                      init |-> Head(s.http.closures[item.id])])]
        [] OTHER -> [s1 EXCEPT !.work[item.id] = Pending]

\* Mutant of Drain: the item is taken out of the queue after #run, not before.
DrainShiftsAfterRun(s) ==
  IF s.activeCount < s.maxConcurrent /\ Len(s.queue) > 0
  THEN LET s1 == Run(s, Head(s.queue))
           s2 == [s1 EXCEPT !.queue = Tail(@)]
       IN  IF s2.exc THEN s2 ELSE Drain(s2)
  ELSE s

\* Mutant of Drain: if for while, one invocation starts at most one item.
DrainOnce(s) ==
  IF s.activeCount < s.maxConcurrent /\ Len(s.queue) > 0
  THEN Run([s EXCEPT !.queue = Tail(@)], Head(s.queue))
  ELSE s

\* Mutant of Drain: the running count is shared by all instances (a static
\* field), so the slot test also counts the second limiter's running work.
DrainSharedCounter(s) ==
  IF s.activeCount + other.activeCount < s.maxConcurrent /\ Len(s.queue) > 0
  THEN LET item == Head(s.queue)
           s1 == Run([s EXCEPT !.queue = Tail(@)], item)
       IN  IF s1.exc THEN s1 ELSE Drain(s1)
  ELSE s

\* Mutant of Drain: the slot test is off by one (<= for <).
DrainOffByOne(s) ==
  IF s.activeCount <= s.maxConcurrent /\ Len(s.queue) > 0
  THEN LET item == Head(s.queue)
           s1 == Run([s EXCEPT !.queue = Tail(@)], item)
       IN  IF s1.exc THEN s1 ELSE Drain(s1)
  ELSE s

\* Mutant of Drain: pop() for shift(), the newest waiting item goes first.
DrainLifo(s) ==
  IF s.activeCount < s.maxConcurrent /\ Len(s.queue) > 0
  THEN LET item == s.queue[Len(s.queue)]
           s1 == Run([s EXCEPT !.queue = SubSeq(@, 1, Len(@) - 1)], item)
       IN  IF s1.exc THEN s1 ELSE Drain(s1)
  ELSE s

\* #drain: while a slot is free and an item waits, shift the head and run it.
Drain(s) ==
  IF s.activeCount < s.maxConcurrent /\ Len(s.queue) > 0
  THEN LET item == Head(s.queue)
           s1 == Run([s EXCEPT !.queue = Tail(@)], item)
       IN  IF s1.exc THEN s1 ELSE Drain(s1)
  ELSE s

\* Mutant of EnqueueOp: the new item is run at once, whatever the load.
EnqueueRunsAtOnce(s, task) ==
  LET id == s.submitted + 1
      s1 == [s EXCEPT !.submitted = id, !.handle[id] = Pending]
  IN  Run(s1, [id |-> id, task |-> task])

\* Mutant of EnqueueOp: a queue-size limit, a call that finds an item already
\* waiting is turned away with a rejected handle.
EnqueueBounded(s, task) ==
  LET id == s.submitted + 1
  IN  IF Len(s.queue) >= 1
      THEN [s EXCEPT !.submitted = id,
                     !.handle[id] = [st |-> "rejected", val |-> Undefined]]
      ELSE Drain([s EXCEPT !.submitted = id,
                           !.handle[id] = Pending,
                           !.queue = Append(@, [id |-> id, task |-> task])])

\* Mutant of EnqueueOp: the item is pushed and admission is left to later.
EnqueueNoDrain(s, task) ==
  LET id == s.submitted + 1
  IN  [s EXCEPT !.submitted = id,
                !.handle[id] = Pending,
                !.queue = Append(@, [id |-> id, task |-> task])]

\* Mutant of EnqueueOp: unshift() for push(), the new item goes to the head.
EnqueueUnshifts(s, task) ==
  LET id == s.submitted + 1
      s1 == [s EXCEPT !.submitted = id,
                      !.handle[id] = Pending,
                      !.queue = <<[id |-> id, task |-> task]>> \o @]
  IN  Drain(s1)

\* enqueue: the Promise executor pushes the item, then #drain.
EnqueueOp(s, task) ==
  LET id == s.submitted + 1
      s1 == [s EXCEPT !.submitted = id,
                      !.handle[id] = Pending,
                      !.queue = Append(@, [id |-> id, task |-> task])]
  IN  Drain(s1)

\* The state after a synchronous piece of code ended; an exception that
\* reached the top of the stack is the caller's (or nobody's) to handle.
Assign(s) ==
  /\ error = "none"
  /\ maxConcurrent' = s.maxConcurrent
  /\ activeCount' = s.activeCount
  /\ queue' = s.queue
  /\ microtasks' = s.microtasks
  /\ work' = s.work
  /\ handle' = s.handle
  /\ submitted' = s.submitted
  /\ started' = s.started
  /\ calls' = s.calls
  /\ released' = s.released
  /\ waited' = waited \cup {s.queue[k].id : k \in 1..Len(s.queue)}
  /\ http' = s.http

Install(s) ==
  /\ Assign(s)
  /\ UNCHANGED <<arg, error, message, other, snaps>>

\* Items a task kind adds when it is submitted and later run.
Cost(task) == IF task = "nest" THEN 2 ELSE 1

\* Children that queued "nest" tasks will still submit.
RECURSIVE NestsIn(_)
NestsIn(q) ==
  IF q = <<>> THEN 0
  ELSE (IF Head(q).task = "nest" THEN 1 ELSE 0) + NestsIn(Tail(q))

Room(task) == submitted + NestsIn(queue) + Cost(task) <= MaxItems

\* -------------------------------------------------------------- promises
\* item.resolve / item.reject: settle the handle (the first call wins) and
\* schedule the caller's continuation on it.
SettleHandle(s, i, st, val) ==
  LET s1 == [s EXCEPT !.calls[i] = @ + 1]
  IN  IF s1.handle[i].st = "pending"
      THEN [s1 EXCEPT !.handle[i] = [st |-> st, val |-> val],
                      !.microtasks = Append(@, Job("cont", i, st, val))]
      ELSE s1

Popped == [Cur EXCEPT !.microtasks = Tail(@)]

\* The caller's two references to snapshot objects, as in
\*   const stats1 = limiter.stats;  const stats2 = limiter.stats;
Refs == {"stats1", "stats2"}
Other(r) == IF r = "stats1" THEN "stats2" ELSE "stats1"

\* No object has been handed out: no reference is set.
NoSnaps == [ref |-> [r \in Refs |-> <<>>], same |-> FALSE]

\* ------------------------------------------------------------ constructor
\* JavaScript numbers that are passed as maxConcurrent: the fraction num/den,
\* NaN, Infinity and -Infinity.
Num(n, d) == [kind |-> "finite", num |-> n, den |-> d]
NaN == [kind |-> "NaN", num |-> 0, den |-> 1]
PosInfinity == [kind |-> "Infinity", num |-> 0, den |-> 1]
NegInfinity == [kind |-> "-Infinity", num |-> 0, den |-> 1]

\* -1, 0, 1, .., MaxCap; -0.5, 0.5, 1.5, ..; NaN and the infinities; and
\* further rejected values: -7 (as in the tests), -12 and -12.5.
CtorArgs ==
  {Num(n, 1) : n \in -1..MaxCap}
    \cup {Num(2 * k + 1, 2) : k \in -1..(MaxCap - 1)}
    \cup {NaN, PosInfinity, NegInfinity}
    \cup {Num(-7, 1), Num(-12, 1), Num(-25, 2)}

\* Number.isInteger(a): a finite number without a fractional part.
NumberIsInteger(a) == a.kind = "finite" /\ a.num % a.den = 0

\* a < n for an integer n: false for NaN, true for -Infinity.
LessThan(a, n) ==
  CASE a.kind = "finite" -> a.num < n * a.den
    [] a.kind = "-Infinity" -> TRUE
    [] OTHER -> FALSE

\* The integer a number that passed validation is stored as.
ToInt(a) == a.num \div a.den

\* The characters of the decimal digits 0..9, in order.
DigitChars == <<"0", "1", "2", "3", "4", "5", "6", "7", "8", "9">>

\* The decimal digits of a natural number, most significant first.
RECURSIVE DigitsOf(_)
DigitsOf(n) ==
  IF n < 10 THEN <<DigitChars[n + 1]>>
  ELSE Append(DigitsOf(n \div 10), DigitChars[(n % 10) + 1])

\* The digits after the decimal point of r/d (0 <= r < d), by long division.
RECURSIVE FractionOf(_, _)
FractionOf(r, d) ==
  IF r = 0 THEN <<>>
  ELSE <<DigitChars[((r * 10) \div d) + 1]>> \o FractionOf((r * 10) % d, d)

\* Mutant of NumberToString: the sign is lost.
NumberToStringUnsigned(a) ==
  CASE a.kind = "NaN" -> <<"N", "a", "N">>
    [] a.kind \in {"Infinity", "-Infinity"} ->
         <<"I", "n", "f", "i", "n", "i", "t", "y">>
    [] OTHER ->
         LET n == IF a.num < 0 THEN 0 - a.num ELSE a.num
         IN  DigitsOf(n \div a.den) \o
               (IF n % a.den = 0 THEN <<>>
                ELSE <<".">> \o FractionOf(n % a.den, a.den))

\* `${maxConcurrent}`: Number::toString of the value, character by character.
NumberToString(a) ==
  CASE a.kind = "NaN" -> <<"N", "a", "N">>
    [] a.kind = "Infinity" -> <<"I", "n", "f", "i", "n", "i", "t", "y">>
    [] a.kind = "-Infinity" -> <<"-", "I", "n", "f", "i", "n", "i", "t", "y">>
    [] OTHER ->
         LET n == IF a.num < 0 THEN 0 - a.num ELSE a.num
         IN  (IF a.num < 0 THEN <<"-">> ELSE <<>>) \o
               DigitsOf(n \div a.den) \o
               (IF n % a.den = 0 THEN <<>>
                ELSE <<".">> \o FractionOf(n % a.den, a.den))

\* The template literal of the RangeError: the fixed text, then the value.
MessageFor(a) ==
  <<"maxConcurrent must be a positive integer >= 1, received: ">>
    \o NumberToString(a)

\* Mutant of Rejects: only the range test, no integer test.
RejectsBelowOneOnly(a) == LessThan(a, 1)

\* The constructor's test: !Number.isInteger(maxConcurrent) || maxConcurrent < 1.
Rejects(a) == ~NumberIsInteger(a) \/ LessThan(a, 1)

\* ---------------------------------------------------------------- actions
\* new ConcurrencyLimiter({ maxConcurrent: arg }): either it throws and there
\* is no limiter, or the fields have their initial values.
Constructed ==
  /\ arg \in CtorArgs
  /\ error = IF Rejects(arg) THEN "RangeError" ELSE "none"
  /\ message = IF Rejects(arg) THEN MessageFor(arg) ELSE <<>>
  /\ maxConcurrent = IF Rejects(arg) THEN Undefined ELSE ToInt(arg)
  /\ snaps = NoSnaps
  /\ activeCount = 0
  /\ queue = <<>>
  /\ microtasks = <<>>
  /\ work = [i \in Items |-> NoPromise]
  /\ handle = [i \in Items |-> NoPromise]
  /\ submitted = 0
  /\ started = <<>>
  /\ calls = [i \in Items |-> 0]
  /\ released = [i \in Items |-> 0]
  /\ waited = {}

\* A limiter as new ConcurrencyLimiter({ maxConcurrent: c }) leaves it.
Fresh(c) ==
  [maxConcurrent |-> c, activeCount |-> 0, queue |-> <<>>,
   microtasks |-> <<>>, work |-> [i \in Items |-> NoPromise],
   handle |-> [i \in Items |-> NoPromise], submitted |-> 0,
   started |-> <<>>, calls |-> [i \in Items |-> 0],
   released |-> [i \in Items |-> 0], http |-> HttpWith(EmptyObject),
   exc |-> FALSE]

\* A limiter on its own: no wrapper, no fetch, the second limiter unused.
Init == Constructed /\ http = HttpWith(EmptyObject) /\ other = Fresh(1)

\* A caller calls limiter.enqueue(task).
Enqueue(task) ==
  /\ Room(task)
  /\ Install(EnqueueOp(Cur, task))

\* A caller submits several tasks in one synchronous piece of code (as in
\* controls.forEach(c => limiter.enqueue(c.task))); a call that throws is
\* caught by the caller, who goes on with the next one.
RECURSIVE BurstOp(_, _)
BurstOp(s, ts) ==
  IF ts = <<>> THEN s
  ELSE BurstOp([EnqueueOp(s, Head(ts)) EXCEPT !.exc = FALSE], Tail(ts))

RECURSIVE CostOf(_)
CostOf(ts) == IF ts = <<>> THEN 0 ELSE Cost(Head(ts)) + CostOf(Tail(ts))

Bursts == UNION {[1..n -> TaskKinds] : n \in 2..MaxItems}

EnqueueBurst(ts) ==
  /\ submitted + NestsIn(queue) + CostOf(ts) <= MaxItems
  /\ Install(BurstOp(Cur, ts))

\* The outside world settles the promise a running task returned; the
\* .then reaction attached in #run is queued as a microtask.
Settle(i, st) ==
  /\ work[i].st = "pending"
  /\ work' = [work EXCEPT ![i] = [st |-> st, val |-> ValueOf(i)]]
  /\ microtasks' = Append(microtasks, Job("then", i, st, ValueOf(i)))
  /\ UNCHANGED <<maxConcurrent, activeCount, queue, handle, submitted,
                 started, calls, released, waited, arg, error,
                 message, http, other, snaps>>

\* Mutant of ThenStep: the slot is given back as soon as the task fulfils,
\* before the value is handed to the caller.
ThenStepReleases(s, j) ==
  IF j.st = "fulfilled"
  THEN LET s1 == Drain([s EXCEPT !.activeCount = @ - 1,
                                 !.released[j.item] = @ + 1])
           s2 == SettleHandle(s1, j.item, "fulfilled", j.val)
       IN  [s2 EXCEPT !.microtasks =
                         Append(@, Job("catch", j.item, "fulfilled", Undefined))]
  ELSE [s EXCEPT !.microtasks =
                    Append(@, Job("catch", j.item, "rejected", j.val))]

\* .then(value => item.resolve(value)): a rejection passes through.
ThenStep(s, j) ==
  IF j.st = "fulfilled"
  THEN LET s1 == SettleHandle(s, j.item, "fulfilled", j.val)
       IN  [s1 EXCEPT !.microtasks =
                         Append(@, Job("catch", j.item, "fulfilled", Undefined))]
  ELSE [s EXCEPT !.microtasks =
                    Append(@, Job("catch", j.item, "rejected", j.val))]

ThenReaction ==
  /\ microtasks # <<>>
  /\ Head(microtasks).hop = "then"
  /\ Install(ThenStep(Popped, Head(microtasks)))

\* Mutant of CatchStep: the rejection is swallowed, item.reject is not called.
CatchStepSwallows(s, j) ==
  [s EXCEPT !.microtasks =
               Append(@, Job("finally", j.item, "fulfilled", Undefined))]

\* Mutant of CatchStep: item.reject is called whatever the outcome was.
CatchStepAlways(s, j) ==
  LET s1 == SettleHandle(s, j.item, "rejected", j.val)
  IN  [s1 EXCEPT !.microtasks =
                    Append(@, Job("finally", j.item, "fulfilled", Undefined))]

\* Mutant of CatchStep: the rejection handler gives the slot back itself, one
\* reaction before the .finally of a fulfilled task would.
CatchStepReleases(s, j) ==
  IF j.st = "rejected"
  THEN LET s1 == SettleHandle(s, j.item, "rejected", j.val)
       IN  Drain([s1 EXCEPT !.activeCount = @ - 1,
                            !.released[j.item] = @ + 1])
  ELSE [s EXCEPT !.microtasks =
                    Append(@, Job("finally", j.item, "fulfilled", Undefined))]

\* Mutant of CatchStep: a rejection takes one more reaction before .finally
\* (the handler returns a promise that has to be unwrapped first).
CatchStepExtraHop(s, j) ==
  IF j.st = "rejected"
  THEN LET s1 == SettleHandle(s, j.item, "rejected", j.val)
       IN  [s1 EXCEPT !.microtasks =
                         Append(@, Job("catch", j.item, "fulfilled", Undefined))]
  ELSE [s EXCEPT !.microtasks =
                    Append(@, Job("finally", j.item, "fulfilled", Undefined))]

\* Mutant of CatchStep: the error is wrapped in a new error object.
CatchStepWraps(s, j) ==
  IF j.st = "rejected"
  THEN LET s1 == SettleHandle(s, j.item, "rejected", j.val + MaxItems)
       IN  [s1 EXCEPT !.microtasks =
                         Append(@, Job("finally", j.item, "fulfilled", Undefined))]
  ELSE [s EXCEPT !.microtasks =
                    Append(@, Job("finally", j.item, "fulfilled", Undefined))]

\* .catch(err => item.reject(err)): a fulfilment passes through.
CatchStep(s, j) ==
  IF j.st = "rejected"
  THEN LET s1 == SettleHandle(s, j.item, "rejected", j.val)
       IN  [s1 EXCEPT !.microtasks =
                         Append(@, Job("finally", j.item, "fulfilled", Undefined))]
  ELSE [s EXCEPT !.microtasks =
                    Append(@, Job("finally", j.item, "fulfilled", Undefined))]

CatchReaction ==
  /\ microtasks # <<>>
  /\ Head(microtasks).hop = "catch"
  /\ Install(CatchStep(Popped, Head(microtasks)))

\* Mutant of FinallyStep: the slot is released twice.
FinallyStepTwice(s, j) ==
  Drain([s EXCEPT !.activeCount = @ - 2,
                  !.released[j.item] = @ + 1])

\* Mutant of FinallyStep: the slot is released but the queue is not drained.
FinallyStepNoDrain(s, j) ==
  [s EXCEPT !.activeCount = @ - 1,
            !.released[j.item] = @ + 1]

\* Mutant of FinallyStep: release and drain only after a fulfilment (the
\* code of the finally handler placed in the then handler).
FinallyStepOnSuccessOnly(s, j) ==
  IF s.work[j.item].st = "rejected"
  THEN s
  ELSE Drain([s EXCEPT !.activeCount = @ - 1,
                       !.released[j.item] = @ + 1])

\* Mutant of FinallyStep: the slot is freed by raising the capacity.
FinallyStepRaisesCapacity(s, j) ==
  Drain([s EXCEPT !.maxConcurrent = @ + 1,
                  !.released[j.item] = @ + 1])

\* Mutant of FinallyStep: #drain is called before the slot is given back.
FinallyStepDrainsFirst(s, j) ==
  LET s1 == Drain(s)
  IN  [s1 EXCEPT !.activeCount = @ - 1,
                 !.released[j.item] = @ + 1]

\* .finally(() => { this.#activeCount--; this.#drain(); })
FinallyStep(s, j) ==
  Drain([s EXCEPT !.activeCount = @ - 1,
                  !.released[j.item] = @ + 1])

FinallyReaction ==
  /\ microtasks # <<>>
  /\ Head(microtasks).hop = "finally"
  /\ Install(FinallyStep(Popped, Head(microtasks)))

\* The caller's continuation on a settled handle: it may submit more work.
ContReaction ==
  /\ microtasks # <<>>
  /\ Head(microtasks).hop = "cont"
  /\ \/ Install(Popped)
     \/ \E task \in TaskKinds :
          /\ Room(task)
          /\ Install(EnqueueOp(Popped, task))

RunMicrotask ==
  \/ ThenReaction
  \/ CatchReaction
  \/ FinallyReaction
  \/ ContReaction

Next ==
  \/ \E task \in TaskKinds : Enqueue(task)
  \/ \E ts \in Bursts : EnqueueBurst(ts)
  \/ \E i \in Items, st \in Outcomes : Settle(i, st)
  \/ RunMicrotask

Spec == Init /\ [][Next]_vars

\* ---------------------------------------------------------- two limiters
\* The second limiter runs the same code on its own fields.
OtherRoom(task) ==
  other.submitted + NestsIn(other.queue) + Cost(task) <= MaxItems

\* A caller calls enqueue(task) on the second limiter.
OtherEnqueue(task) ==
  /\ OtherRoom(task)
  /\ other' = [EnqueueOp(other, task) EXCEPT !.exc = FALSE]
  /\ UNCHANGED <<maxConcurrent, activeCount, queue, microtasks, work, handle,
                 submitted, started, calls, released, waited, arg, error,
                 message, http, snaps>>

\* The promise of a task running in the second limiter settles.
OtherSettle(i, st) ==
  /\ other.work[i].st = "pending"
  /\ other' = [other EXCEPT
                 !.work[i] = [st |-> st, val |-> ValueOf(i)],
                 !.microtasks = Append(@, Job("then", i, st, ValueOf(i)))]
  /\ UNCHANGED <<maxConcurrent, activeCount, queue, microtasks, work, handle,
                 submitted, started, calls, released, waited, arg, error,
                 message, http, snaps>>

\* The next reaction job of the second limiter's promises runs (its callers'
\* continuations do nothing).
OtherReaction(s) ==
  LET j == Head(s.microtasks)
      p == [s EXCEPT !.microtasks = Tail(@)]
  IN  CASE j.hop = "then" -> ThenStep(p, j)
        [] j.hop = "catch" -> CatchStep(p, j)
        [] j.hop = "finally" -> FinallyStep(p, j)
        [] OTHER -> p

OtherRunMicrotask ==
  /\ other.microtasks # <<>>
  /\ other' = [OtherReaction(other) EXCEPT !.exc = FALSE]
  /\ UNCHANGED <<maxConcurrent, activeCount, queue, microtasks, work, handle,
                 submitted, started, calls, released, waited, arg, error,
                 message, http, snaps>>

\* Two limiters with capacities of their own.
TwoInit ==
  /\ Constructed
  /\ http = HttpWith(EmptyObject)
  /\ \E c \in 1..MaxCap : other = Fresh(c)

\* Runs are followed as long as the two limiters together have been given at
\* most MaxTwoItems items.
TwoBudget == submitted + other.submitted <= MaxTwoItems

TwoNext ==
  \/ Next /\ TwoBudget'
  \/ (\E task \in TaskKinds : OtherEnqueue(task)) /\ TwoBudget'
  \/ \E i \in Items, st \in Outcomes : OtherSettle(i, st)
  \/ OtherRunMicrotask /\ TwoBudget'

TwoSpec == TwoInit /\ [][TwoNext]_vars

\* ------------------------------------------------ one program, two runs
\* Two runs of the same program side by side, the first in the limiter's own
\* variables and the second in the record: the caller makes the same calls at
\* the same moments and the same promises settle at the same moments, but each
\* promise may fulfil in one run and reject in the other.
PairEnqueue(task) ==
  /\ Room(task)
  /\ Assign(EnqueueOp(Cur, task))
  /\ other' = [EnqueueOp(other, task) EXCEPT !.exc = FALSE]
  /\ UNCHANGED <<arg, error, message, snaps>>

PairSettle(i, st, st2) ==
  /\ work[i].st = "pending"
  /\ other.work[i].st = "pending"
  /\ work' = [work EXCEPT ![i] = [st |-> st, val |-> ValueOf(i)]]
  /\ microtasks' = Append(microtasks, Job("then", i, st, ValueOf(i)))
  /\ other' = [other EXCEPT
                 !.work[i] = [st |-> st2, val |-> ValueOf(i)],
                 !.microtasks = Append(@, Job("then", i, st2, ValueOf(i)))]
  /\ UNCHANGED <<maxConcurrent, activeCount, queue, handle, submitted,
                 started, calls, released, waited, arg, error,
                 message, http, snaps>>

\* The callers' continuations at the head of the microtask queue run: they
\* do nothing to the limiter.
RECURSIVE RunContinuations(_)
RunContinuations(s) ==
  IF s.microtasks # <<>> /\ Head(s.microtasks).hop = "cont"
  THEN RunContinuations([s EXCEPT !.microtasks = Tail(@)])
  ELSE s

\* The jobs up to and including the next reaction of a #run chain, and the
\* continuations behind it. A handle settles in .then when the task fulfils
\* and in .catch when it rejects, so the caller's continuation is at another
\* place of the job queue in the two runs; the reactions of the chains are in
\* the same order in both, and the runs are compared reaction by reaction.
ChainReaction(s) ==
  LET s0 == RunContinuations(s)
  IN  IF s0.microtasks = <<>> THEN s0
      ELSE RunContinuations(OtherReaction(s0))

\* The runtime runs the next chain reaction of each run.
PairMicrotask ==
  /\ microtasks # <<>> \/ other.microtasks # <<>>
  /\ Assign(ChainReaction(Cur))
  /\ other' = [ChainReaction(other) EXCEPT !.exc = FALSE]
  /\ UNCHANGED <<arg, error, message, snaps>>

PairInit ==
  /\ Constructed
  /\ http = HttpWith(EmptyObject)
  /\ other = Fresh(maxConcurrent)

PairNext ==
  \/ (\E task \in TaskKinds : PairEnqueue(task)) /\ submitted' <= MaxPairItems
  \/ \E i \in Items, st, st2 \in Outcomes : PairSettle(i, st, st2)
  \/ PairMicrotask /\ submitted' <= MaxPairItems

PairSpec == PairInit /\ [][PairNext]_vars

\* ------------------------------------------------------- flushMicrotasks
\* for (let i = 0; i < rounds; i++) await Promise.resolve();  with rounds = 4
FlushRounds == 4

\* A flushMicrotasks() call is under way.
FlushPending ==
  \E k \in 1..Len(microtasks) : microtasks[k].hop = "flush"

\* A test settles the promise of running task i and calls flushMicrotasks()
\* in the same synchronous piece of code: the .then reaction of #run is
\* queued, and behind it the continuation of the first await. The job
\* carries, as val, the number of awaits that are over when it runs.
SettleThenFlush(i, st) ==
  /\ ~FlushPending
  /\ work[i].st = "pending"
  /\ work' = [work EXCEPT ![i] = [st |-> st, val |-> ValueOf(i)]]
  /\ microtasks' = microtasks \o <<Job("then", i, st, ValueOf(i)),
                                    Job("flush", i, st, 1)>>
  /\ UNCHANGED <<maxConcurrent, activeCount, queue, handle, submitted,
                 started, calls, released, waited, arg, error,
                 message, http, other, snaps>>

\* The continuation of an await of flushMicrotasks runs: the next round
\* awaits again, the last one ends the loop.
FlushReaction ==
  /\ microtasks # <<>>
  /\ Head(microtasks).hop = "flush"
  /\ microtasks' =
       LET j == Head(microtasks)
       IN  IF j.val < FlushRounds
           THEN Append(Tail(microtasks), Job("flush", j.item, j.st, j.val + 1))
           ELSE Tail(microtasks)
  /\ UNCHANGED <<maxConcurrent, activeCount, queue, work, handle, submitted,
                 started, calls, released, waited, arg, error,
                 message, http, other, snaps>>

FlushNext ==
  \/ Next /\ submitted' <= MaxFlushItems
  \/ \E i \in Items, st \in Outcomes : SettleThenFlush(i, st)
  \/ FlushReaction

FlushSpec == Init /\ [][FlushNext]_vars

\* ------------------------------------------------------- HttpRequestLimiter
\* options.defaultInit ?? {}; ...init and init?.headers of an absent init.
OrEmpty(opt) == IF opt.kind = "undefined" THEN EmptyObject ELSE opt.value

\* { ...h }: the own enumerable properties of a headers value. A plain
\* object has its name/value pairs as properties, a Headers instance keeps
\* them inside and has none, undefined has none.
SpreadHeaders(h) ==
  IF h.form = "record" THEN h.entries ELSE [k \in HeaderKeys |-> Absent]

\* { ...a, ...b } on one property: b's when b has it, else a's.
Over(a, b) == IF b # Absent THEN b ELSE a

\* mergedInit = { ...#defaultInit, ...init,
\*                headers: { ...#defaultInit.headers, ...init?.headers } }
MergedInit(d, init) ==
  LET i == OrEmpty(init)
  IN  [method |-> Over(d.method, i.method),
       body |-> Over(d.body, i.body),
       headers |->
         [form |-> "record",
          entries |-> [k \in HeaderKeys |->
                         Over(SpreadHeaders(d.headers)[k],
                              SpreadHeaders(i.headers)[k])]]]

\* Mutant of RequestOp: the per-call options are merged into the stored
\* defaults (Object.assign(this.#defaultInit, ...)) and that object is passed.
RequestWritesDefaults(s, init) ==
  LET id == s.submitted + 1
      merged == MergedInit(s.http.defaultInit, init)
  IN  EnqueueOp([s EXCEPT !.http.inits[id] = <<init>>,
                          !.http.closures[id] = <<merged>>,
                          !.http.defaultInit = merged], "fetch")

\* Mutant of RequestOp: fetch is called at once, past the limiter.
RequestFetchesAtOnce(s, init) ==
  LET id == s.submitted + 1
      merged == MergedInit(s.http.defaultInit, init)
  IN  [s EXCEPT !.submitted = id,
                !.handle[id] = Pending,
                !.work[id] = Pending,
                !.started = Append(@, id),
                !.http.inits[id] = <<init>>,
                !.http.closures[id] = <<merged>>,
                !.http.fetched = Append(@, [id |-> id, init |-> merged])]

\* request(input, init): build mergedInit, then
\* this.#limiter.enqueue(() => fetch(input, mergedInit)).
RequestOp(s, init) ==
  LET id == s.submitted + 1
      merged == MergedInit(s.http.defaultInit, init)
  IN  EnqueueOp([s EXCEPT !.http.inits[id] = <<init>>,
                          !.http.closures[id] = <<merged>>], "fetch")

\* A caller calls http.request(input, init).
Request(init) ==
  /\ Room("fetch")
  /\ Install(RequestOp(Cur, init))

\* new HttpRequestLimiter({ maxConcurrentRequests: arg, defaultInit: opt }).
HttpConstructed(opt) ==
  Constructed /\ http = HttpWith(OrEmpty(opt)) /\ other = Fresh(1)

\* A wrapper built without defaultInit; requests through it and every step
\* of the limiter, among them tasks enqueued on http.limiter; runs are
\* followed as long as at most MaxHttpItems items have been submitted.
HttpInit == HttpConstructed(NoArgument)

HttpNext ==
  \/ Request(NoArgument) /\ submitted' <= MaxHttpItems
  \/ Next /\ submitted' <= MaxHttpItems

HttpSpec == HttpInit /\ [][HttpNext]_vars

\* Wrappers built with every defaultInit (or none), and the first request
\* made through each with every init (or none): the options merge applied to
\* every pair.
MergeInit == \E opt \in OptionalInits : HttpConstructed(opt)

MergeNext == \E init \in OptionalInits : submitted = 0 /\ Request(init)

MergeSpec == MergeInit /\ [][MergeNext]_vars

HttpLiveSpec == HttpSpec /\ WF_vars(RunMicrotask)

\* Several requests through one wrapper. The per-call options tried: none, a
\* header in a plain object, a header in a Headers instance, and a method
\* with another header; the default options tried: none, and a method with a
\* header.
OneHeader(f, name, v) ==
  [form |-> f,
   entries |-> [k \in HeaderKeys |-> IF k = name THEN v ELSE Absent]]

SomeInits ==
  {NoArgument} \cup
    {[kind |-> "object", value |-> v] :
       v \in {[EmptyObject EXCEPT !.headers = OneHeader("record", "X-Id", "123")],
              [EmptyObject EXCEPT
                 !.headers = OneHeader("Headers", "X-Id", "123")],
              [EmptyObject EXCEPT
                 !.method = "POST", !.body = "x",
                 !.headers = OneHeader("record", "Accept", "text/csv")]}}

SomeDefaults ==
  {NoArgument,
   [kind |-> "object",
    value |-> [EmptyObject EXCEPT
                 !.method = "GET",
                 !.headers = OneHeader("record", "Accept", "text/csv")]]}

RequestsInit == \E opt \in SomeDefaults : HttpConstructed(opt)

RequestsNext ==
  \/ (\E init \in SomeInits : Request(init)) /\ submitted' <= MaxHttpItems
  \/ \E i \in Items, st \in Outcomes : Settle(i, st)
  \/ RunMicrotask /\ submitted' <= MaxHttpItems

RequestsSpec == RequestsInit /\ [][RequestsNext]_vars

\* ------------------------------------------------------------------ stats
\* Mutant of StatsGetter: the waiting items are counted as active too.
StatsGetterCountsWaiting(s) ==
  [maxConcurrent |-> maxConcurrent,
   activeCount |-> s.activeCount + Len(s.queue),
   queueLength |-> Len(s.queue)]

\* get stats(): the values the returned object literal is built from.
StatsGetter(s) ==
  [maxConcurrent |-> s.maxConcurrent,
   activeCount |-> s.activeCount,
   queueLength |-> Len(s.queue)]

\* Mutant of HttpStatsGetter: the wrapper counts for itself, fetches only.
HttpStatsCountsFetches(s) ==
  [StatsGetter(s) EXCEPT
     !.activeCount =
        Cardinality({k \in 1..Len(s.http.fetched) :
                       s.work[s.http.fetched[k].id].st = "pending"})]

\* HttpRequestLimiter's get stats(): return this.#limiter.stats.
HttpStatsGetter(s) == StatsGetter(s)

\* Mutant of NewObject: one cached object is refilled and handed out again,
\* so every reference that is set denotes it.
ReuseObject(h, r, obj) ==
  [ref |-> [x \in Refs |-> IF x = r \/ h.ref[x] # <<>> THEN <<obj>> ELSE <<>>],
   same |-> h.ref[Other(r)] # <<>>]

\* The object literal { ... } creates an object that did not exist before:
\* r denotes it and the other reference cannot.
NewObject(h, r, obj) == [h EXCEPT !.ref[r] = <<obj>>, !.same = FALSE]

\* An assignment through r changes the object r denotes, hence what the other
\* reference shows exactly when both denote one object.
WriteObject(h, r, obj) ==
  IF h.same
  THEN [h EXCEPT !.ref = [x \in Refs |-> <<obj>>]]
  ELSE [h EXCEPT !.ref[r] = <<obj>>]

\* A caller reads limiter.stats into one of its references.
ReadStats(r) ==
  /\ error = "none"
  /\ snaps' = NewObject(snaps, r, StatsGetter(Cur))
  /\ UNCHANGED limiterVars

\* What a caller leaves in a snapshot it overwrites; no field ever has -1.
Scribbled == [maxConcurrent |-> -1, activeCount |-> -1, queueLength |-> -1]

\* A caller overwrites the fields of a snapshot object it holds (readonly
\* binds the compiler only), as in Object.assign(stats1, { activeCount: -1, .. }).
WriteSnapshot(r) ==
  /\ snaps.ref[r] # <<>>
  /\ snaps' = WriteObject(snaps, r, Scribbled)
  /\ UNCHANGED limiterVars

\* The limiter's steps are followed as long as at most MaxStatsItems items
\* have been submitted.
StatsNext ==
  \/ Next /\ submitted' <= MaxStatsItems
  \/ \E r \in Refs : ReadStats(r)
  \/ \E r \in Refs : WriteSnapshot(r)

StatsSpec == Init /\ [][StatsNext]_vars

\* The runtime runs every queued promise reaction job.
LiveSpec == Spec /\ WF_vars(RunMicrotask)

\* ... and every promise a started task returned settles eventually.
SettleSpec ==
  LiveSpec /\ \A i \in Items : WF_vars(\E st \in Outcomes : Settle(i, st))

\* ------------------------------------------------------------ properties
QueueIds == [k \in 1..Len(queue) |-> queue[k].id]
Ids(n) == [k \in 1..n |-> k]
Settled(p) == p.st \in Outcomes
StartedSet == {started[k] : k \in 1..Len(started)}

\* Items whose work function was invoked and returned a promise that has not
\* settled yet.
Running == {i \in Items : work[i].st = "pending"}

\* C1: the number of work functions that have been invoked and whose promise
\* has not yet settled never exceeds maxConcurrent, for every capacity and
\* every interleaving of enqueue calls (from callers, from task bodies, from
\* continuations of handles) and settlements.
C1_CapacityNeverExceeded == Cardinality(Running) <= maxConcurrent

\* C1 witness: the cap binds: capacity 2, two tasks in flight, one waiting.
C1_Witness ==
  /\ maxConcurrent = 2
  /\ Cardinality(Running) = 2
  /\ Len(queue) > 0

\* C2: the counter is never negative and never above the capacity.
C2_CounterInRange == 0 <= activeCount /\ activeCount <= maxConcurrent

\* C2 witness: the counter is at the capacity after it went down at least once.
C2_Witness ==
  /\ activeCount = maxConcurrent
  /\ \E i \in Items : released[i] = 1
  /\ \E i \in Items : Settled(work[i]) /\ released[i] = 0

\* C3: work conservation: between two steps a non-empty queue implies that
\* activeCount equals maxConcurrent, i.e. activeCount is the smaller of
\* maxConcurrent and activeCount + queueLength.
C3_WorkConserving ==
  /\ Len(queue) > 0 => activeCount = maxConcurrent
  /\ activeCount =
       IF maxConcurrent <= activeCount + Len(queue)
       THEN maxConcurrent ELSE activeCount + Len(queue)

\* C3 witness: a completion handler has refilled its slot from the queue and
\* items still wait.
C3_Witness ==
  /\ Len(queue) > 0
  /\ activeCount = maxConcurrent
  /\ \E i \in Items : released[i] = 1
  /\ Len(started) > maxConcurrent

\* C4: FIFO admission for any capacity: the work functions are invoked in
\* submission order, and the waiting items are the later submissions in
\* order: no item is started ahead of an earlier one, none is skipped.
C4_Fifo == started \o QueueIds = Ids(submitted)

\* C4 witness: capacity 2, three items started in submission order, the
\* third one after it had waited in the queue for a release.
C4_Witness ==
  /\ maxConcurrent = 2
  /\ started = <<1, 2, 3>>
  /\ 3 \in waited
  /\ released[1] = 1
  /\ work[2].st = "pending"
  /\ work[3].st = "pending"

\* C5: with maxConcurrent = 1, item k+1 is not started until the work of
\* item k has settled and its slot has been released, so items start in
\* submission order and their handles settle in submission order.
C5_SerialAtCapacityOne ==
  maxConcurrent = 1 =>
    /\ started = Ids(Len(started))
    /\ \A k \in 1..(MaxItems - 1) :
         /\ (k + 1) \in StartedSet =>
              Settled(work[k]) /\ released[k] = 1
         /\ Settled(handle[k + 1]) => Settled(handle[k])

\* C5 witness: capacity 1, two items ran one after the other and both handles
\* are settled.
C5_Witness ==
  /\ maxConcurrent = 1
  /\ started = <<1, 2>>
  /\ Settled(handle[1])
  /\ Settled(handle[2])

SomeThrew == \E i \in Items : work[i].st = "threw"

\* A settled task whose completion handler has not run yet.
Completing(i) == Settled(work[i]) /\ released[i] = 0

\* C6: slot recycling: whenever a running task's promise has settled
\* (fulfilled or rejected) while an item h is at the head of the queue, h is
\* eventually started, with fairness for the promise reaction jobs only (no
\* enqueue, no settlement is needed); and a waiting item is only ever
\* started by a step in which a completion handler released a slot.
C6_SlotRecycling ==
  /\ \A h \in Items :
       (/\ Len(queue) > 0
        /\ Head(queue).id = h
        /\ \E i \in Items : Completing(i)) ~> (h \in StartedSet)
  /\ [][\A h \in Items :
          (h \in {queue[k].id : k \in 1..Len(queue)} /\ h \in StartedSet')
             => released' # released]_vars

\* C6 witness: an item that had waited runs in a slot whose previous task
\* rejected.
C6_Witness ==
  \E i, h \in Items :
    /\ h \in waited
    /\ work[h].st = "pending"
    /\ work[i].st = "rejected"
    /\ released[i] = 1
    /\ activeCount = maxConcurrent

\* C7: no starvation: if every started work function returns a promise that
\* eventually settles and the reaction jobs run, every submitted item is
\* eventually started and its handle eventually settles, whatever is
\* submitted after it.
C7_NoStarvation ==
  \A i \in Items :
    (i <= submitted) ~> ((i \in StartedSet /\ Settled(handle[i])) \/ SomeThrew)

\* C7 witness: an item that had waited behind others was served although
\* more items were submitted after it.
C7_Witness ==
  \E i \in Items :
    /\ i \in waited
    /\ Settled(handle[i])
    /\ submitted > i
    /\ ~SomeThrew

\* C8: exactly-once delivery: resolve/reject of an item is invoked at most
\* once in all, it has been invoked exactly once when the item's completion
\* chain has run, the handle is settled exactly when it was invoked, and a
\* settled handle never changes.
C8_ExactlyOnce ==
  /\ [](\A i \in Items :
          /\ calls[i] <= 1
          /\ released[i] >= 1 => calls[i] = 1
          /\ Settled(handle[i]) <=> calls[i] = 1)
  /\ [][\A i \in Items : Settled(handle[i]) => handle'[i] = handle[i]]_vars

\* C8 witness: one item delivered a value and another one an error, each
\* once, and both chains have finished.
C8_Witness ==
  \E i, k \in Items :
    /\ handle[i].st = "fulfilled" /\ calls[i] = 1 /\ released[i] = 1
    /\ handle[k].st = "rejected" /\ calls[k] = 1 /\ released[k] = 1

\* C9: outcome transparency: a settled handle carries the outcome and the
\* very value (reference) that the promise of its own task settled with.
C9_OutcomeTransparent ==
  \A i \in Items :
    Settled(handle[i]) => /\ Settled(work[i])
                          /\ handle[i].st = work[i].st
                          /\ handle[i].val = ValueOf(i)
                          /\ handle[i].val = work[i].val

\* C9 witness: an item that had waited in the queue rejected with its own
\* error, and another handle fulfilled with its own value.
C9_Witness ==
  \E i, k \in Items :
    /\ i \in waited
    /\ handle[i] = [st |-> "rejected", val |-> ValueOf(i)]
    /\ handle[k] = [st |-> "fulfilled", val |-> ValueOf(k)]

\* The step runs a reaction job of item i's completion chain.
ChainStep(i) ==
  /\ microtasks # <<>>
  /\ Head(microtasks).item = i
  /\ Head(microtasks).hop \in {"then", "catch", "finally"}
  /\ microtasks' = <<>> \/ Head(microtasks') # Head(microtasks)

\* C10: error isolation: a handle rejects only when its own task rejected;
\* the steps that process a rejection settle no other item's handle and
\* invoke no other item's callbacks, take nothing out of the queue except
\* by starting it, and the step that releases the rejected item's slot
\* starts the item at the head of the queue.
C10_ErrorIsolation ==
  /\ [](\A k \in Items : handle[k].st = "rejected" => work[k].st = "rejected")
  /\ [][\A i \in Items :
          (work[i].st = "rejected" /\ ChainStep(i)) =>
             /\ \A k \in Items \ {i} :
                  /\ calls'[k] = calls[k]
                  /\ Settled(handle'[k]) => handle'[k] = handle[k]
             /\ \A k \in 1..Len(queue) :
                  \/ queue[k].id \in StartedSet'
                  \/ \E n \in 1..Len(queue') : queue'[n] = queue[k]
             /\ (Head(microtasks).hop = "finally" /\ Len(queue) > 0) =>
                  /\ released'[i] = 1
                  /\ Head(queue).id \in StartedSet']_vars

\* C10 witness: an item rejected and released its slot, and an item that had
\* waited in the queue behind it fulfilled.
C10_Witness ==
  \E i, k \in Items :
    /\ i < k
    /\ handle[i].st = "rejected"
    /\ released[i] = 1
    /\ k \in waited
    /\ handle[k].st = "fulfilled"

\* Number of slot releases so far.
RECURSIVE SumTo(_, _)
SumTo(f, n) == IF n = 0 THEN 0 ELSE f[n] + SumTo(f, n - 1)
Releases == SumTo(released, MaxItems)

\* C11: single release per started item: the completion handler of an item
\* runs at most once and only after the item's promise settled; activeCount
\* is the number of slots claimed minus the number of completion handlers
\* run, so each handler takes exactly one off and nothing else does; a step
\* that is not a completion handler never lowers activeCount; and every
\* settled promise does get its handler run (fulfilled or rejected, whatever
\* the caller does with the handle).
C11_SingleRelease ==
  /\ [](\A i \in Items :
          /\ released[i] <= 1
          /\ released[i] = 1 => Settled(work[i]))
  /\ [](activeCount = Len(started) - Releases)
  /\ [][released' = released => activeCount' >= activeCount]_vars
  /\ \A i \in Items : Settled(work[i]) ~> (released[i] = 1)

\* C11 witness: one task fulfilled, one rejected, each released its slot
\* once, and the counter is back at 0.
C11_Witness ==
  \E i, k \in Items :
    /\ work[i].st = "fulfilled" /\ released[i] = 1
    /\ work[k].st = "rejected" /\ released[k] = 1
    /\ Len(started) = 2
    /\ activeCount = 0

\* Nothing is in flight and no reaction job is left to run.
Quiet == Running = {} /\ microtasks = <<>>

\* C12: slots never leak however a task terminates: when a work function
\* threw synchronously at its invocation, then once nothing is in flight and
\* all reaction jobs have run, no slot is held and nothing waits, and the
\* handle of the item that threw is rejected.
C12_NoLeakOnThrow ==
  Quiet =>
    /\ activeCount = 0
    /\ Len(queue) = 0
    /\ \A i \in Items : work[i].st = "threw" => handle[i].st = "rejected"

\* The smaller of two numbers.
Min(a, b) == IF a <= b THEN a ELSE b

\* C13: burst admission: a synchronous piece of code that makes N enqueue
\* calls on a limiter with an empty queue and C free slots ends with exactly
\* min(N, C) of the new items started, the first ones in submission order,
\* and the other N - min(N, C) in the queue in submission order.
C13_BurstAdmission ==
  [][(released' = released /\ submitted' > submitted /\ Len(queue) = 0) =>
       LET N == submitted' - submitted
           C == maxConcurrent - activeCount
           K == Min(N, C)
       IN  /\ started' = started \o [k \in 1..K |-> submitted + k]
           /\ QueueIds' = [k \in 1..(N - K) |-> submitted + K + k]
           /\ activeCount' = activeCount + K]_vars

\* C13 witness: three items were submitted to an idle limiter of capacity 2:
\* the first two run, the third waits, nothing has settled yet.
C13_Witness ==
  /\ maxConcurrent = 2
  /\ started = <<1, 2>>
  /\ QueueIds = <<3>>
  /\ Running = {1, 2}
  /\ microtasks = <<>>

\* A step made of exactly one enqueue call: one id handed out, no slot
\* released (the enqueue calls a task makes while it is being started, and the
\* admission a finally handler runs, are other calls).
OneCall == submitted' = submitted + 1 /\ released' = released

C15_StartsOnNextTick ==
  [][(OneCall /\ activeCount < maxConcurrent) =>
       /\ (submitted + 1) \notin StartedSet'
       /\ work'[submitted + 1].st = "none"]_vars

\* The ids waiting in the queue, as a set.
QueueSet == {queue[k].id : k \in 1..Len(queue)}

\* C16: enqueue never refuses work because of backlog: whatever the queue
\* length and activeCount, every call hands out a pending handle and keeps
\* the item (in the queue or started); with all slots taken the item goes to
\* the tail and nothing is invoked; a submitted item is never dropped, and a
\* handle is only ever settled with the outcome of its own task.
C16_NeverRefuses ==
  /\ [][\A id \in (submitted + 1)..submitted' :
          /\ handle'[id] = Pending
          /\ id \in QueueSet' \cup StartedSet']_vars
  /\ [][(OneCall /\ activeCount >= maxConcurrent) =>
          /\ QueueIds' = Append(QueueIds, submitted + 1)
          /\ work' = work]_vars
  /\ [](\A i \in Items :
          /\ i <= submitted <=> i \in QueueSet \cup StartedSet
          /\ ~(i \in QueueSet /\ i \in StartedSet)
          /\ i \in QueueSet => handle[i] = Pending
          /\ Settled(handle[i]) => handle[i] = work[i])

\* C16 witness: at capacity 1 with one task running and one item waiting, a
\* further call was accepted: two items wait, all three handles are pending.
C16_Witness ==
  /\ maxConcurrent = 1
  /\ activeCount = 1
  /\ QueueIds = <<2, 3>>
  /\ work[1].st = "pending"
  /\ \A i \in Items : handle[i] = Pending

\* Every submitted task has settled and every promise reaction has run.
AllDone ==
  /\ \A i \in 1..submitted : Settled(work[i])
  /\ microtasks = <<>>

\* C17: drain to idle: once every submitted task has settled and all promise
\* reactions have run, activeCount = 0 and the queue is empty (as after
\* construction) and every handle carries its task's outcome; an enqueue made
\* then starts its task at once; its handle, like every other, settles with
\* its own task's outcome; and when the tasks' promises all settle the
\* limiter gets there again and again.
C17_DrainToIdle ==
  /\ [](AllDone =>
          /\ activeCount = 0
          /\ queue = <<>>
          /\ StartedSet = 1..submitted
          /\ \A i \in 1..submitted : released[i] = 1 /\ handle[i] = work[i])
  /\ [][(AllDone /\ OneCall) =>
          /\ started' = Append(started, submitted + 1)
          /\ activeCount' = 1
          /\ queue' = <<>>
          /\ handle'[submitted + 1] = Pending]_vars
  /\ \A i \in Items : Settled(work[i]) ~> (handle[i] = work[i])
  /\ []<>(AllDone \/ SomeThrew)

\* C17 witness: at capacity 1 three tasks were submitted, the second had to
\* wait, the third was submitted once the limiter had drained and did not
\* wait; all have settled, the third by rejecting, and the limiter is idle.
C17_Witness ==
  /\ maxConcurrent = 1
  /\ submitted = 3
  /\ AllDone
  /\ waited = {2}
  /\ handle[3].st = "rejected"
  /\ activeCount = 0
  /\ queue = <<>>

\* Items whose task was invoked and whose finally handler has not run.
StartedNotReleased == {i \in StartedSet : released[i] = 0}

\* Items submitted whose task has not been invoked.
NotStarted == {i \in 1..submitted : i \notin StartedSet}

\* What a stats access has to return in the current state, from the
\* constructor argument and the history of the items.
ExpectedStats ==
  [maxConcurrent |-> CHOOSE n \in 1..MaxCap : n * arg.den = arg.num,
   activeCount |-> Cardinality(StartedNotReleased),
   queueLength |-> Cardinality(NotStarted)]

\* C18: stats accuracy: in every state of a constructed limiter the getter
\* yields maxConcurrent = the constructor value, activeCount = the number of
\* items started and not yet released, queueLength = the number of items
\* submitted and not yet started; the object an access hands out holds these
\* values, and the access changes nothing in the limiter.
C18_StatsAccuracy ==
  /\ [](error = "none" => StatsGetter(Cur) = ExpectedStats)
  /\ [][\A r \in Refs :
          (snaps'.ref[r] # snaps.ref[r] /\ snaps'.ref[r] # <<Scribbled>>) =>
            /\ snaps'.ref[r] = <<ExpectedStats>>
            /\ UNCHANGED limiterVars]_vars

\* C18 witness: at capacity 1 with one task running and one item waiting a
\* snapshot was taken, and the limiter is still in that state.
C18_Witness ==
  /\ snaps.ref["stats1"] = <<[maxConcurrent |-> 1, activeCount |-> 1,
                              queueLength |-> 1]>>
  /\ arg = Num(1, 1)
  /\ Running = {1}
  /\ QueueIds = <<2>>

\* C19: stats snapshot isolation: two references never denote one object
\* (every access made a new one); an access or a write through one reference
\* leaves the other object and the limiter as they were; an access made while
\* the other reference holds a snapshot of the same state gives an object
\* with equal fields; and no step of the limiter changes a snapshot.
C19_SnapshotIsolation ==
  /\ [](~snaps.same)
  /\ [][\A r \in Refs :
          snaps'.ref[r] # snaps.ref[r] =>
            /\ snaps'.ref[Other(r)] = snaps.ref[Other(r)]
            /\ UNCHANGED limiterVars]_vars
  /\ [][\A r \in Refs :
          (/\ snaps'.ref[r] # snaps.ref[r]
           /\ snaps'.ref[r] # <<Scribbled>>
           /\ snaps.ref[Other(r)] = <<StatsGetter(Cur)>>) =>
            snaps'.ref[r] = snaps'.ref[Other(r)]]_vars
  /\ [][limiterVars' # limiterVars => snaps' = snaps]_vars

\* C19 witness: stats1 was read while one task ran and one item waited and
\* still says so after both have finished; stats2 was read and overwritten
\* by the caller; the limiter is idle.
C19_Witness ==
  /\ snaps.ref["stats1"] = <<[maxConcurrent |-> 1, activeCount |-> 1,
                              queueLength |-> 1]>>
  /\ snaps.ref["stats2"] = <<Scribbled>>
  /\ submitted = 2
  /\ AllDone
  /\ activeCount = 0
  /\ queue = <<>>

\* The constructor argument is one of the integers 1, 2, ..
PositiveInteger(a) ==
  a.kind = "finite" /\ \E n \in 1..MaxCap : n * a.den = a.num

\* C20: construction validation: for a value that is not an integer (a
\* fraction such as 1.5, NaN, an infinity) or is below 1 (0, negative) the
\* constructor throws RangeError and there is no limiter, so nothing is ever
\* submitted or started; for an integer >= 1 it succeeds with that capacity
\* and starts from activeCount = 0 and an empty queue with nothing started.
C20_ConstructionValidation ==
  /\ (error = "none" =>
        /\ activeCount = 0
        /\ queue = <<>>
        /\ started = <<>>
        /\ submitted = 0
        /\ microtasks = <<>>
        /\ \A i \in Items : work[i] = NoPromise)
  /\ [](IF PositiveInteger(arg)
        THEN /\ error = "none"
             /\ maxConcurrent * arg.den = arg.num
        ELSE /\ error = "RangeError"
             /\ submitted = 0
             /\ started = <<>>
             /\ activeCount = 0
             /\ queue = <<>>
             /\ snaps = NoSnaps)

\* C20 witness: new ConcurrencyLimiter({ maxConcurrent: 1.5 }) threw
\* RangeError.
C20_Witness ==
  /\ arg = Num(3, 2)
  /\ error = "RangeError"
  /\ submitted = 0

\* What a reader of a message makes of a piece of it: no number.
NotANumber == [kind |-> "invalid", num |-> 0, den |-> 1]

\* A sequence of message pieces that is a non-empty run of decimal digits.
IsDigits(cs) ==
  /\ Len(cs) > 0
  /\ \A k \in 1..Len(cs) : \E d \in 1..10 : DigitChars[d] = cs[k]

\* The natural number a run of decimal digits denotes.
RECURSIVE ValueOfDigits(_)
ValueOfDigits(cs) ==
  IF cs = <<>> THEN 0
  ELSE 10 * ValueOfDigits(SubSeq(cs, 1, Len(cs) - 1))
         + ((CHOOSE d \in 1..10 : DigitChars[d] = cs[Len(cs)]) - 1)

RECURSIVE PowerOfTen(_)
PowerOfTen(k) == IF k = 0 THEN 1 ELSE 10 * PowerOfTen(k - 1)

\* The number an unsigned decimal literal (digits, or digits.digits) denotes.
ReadUnsigned(cs, sign) ==
  LET dots == {k \in 1..Len(cs) : cs[k] = "."}
  IN  IF dots = {}
      THEN IF IsDigits(cs) THEN Num(sign * ValueOfDigits(cs), 1)
           ELSE NotANumber
      ELSE LET p == CHOOSE k \in dots : TRUE
               whole == SubSeq(cs, 1, p - 1)
               frac == SubSeq(cs, p + 1, Len(cs))
           IN  IF Cardinality(dots) = 1 /\ IsDigits(whole) /\ IsDigits(frac)
               THEN Num(sign * (ValueOfDigits(whole) * PowerOfTen(Len(frac))
                                  + ValueOfDigits(frac)),
                        PowerOfTen(Len(frac)))
               ELSE NotANumber

\* The number a literal denotes, read by the rules for numeric literals and
\* not by undoing NumberToString.
ReadLiteral(cs) ==
  CASE cs = <<"N", "a", "N">> -> NaN
    [] cs = <<"I", "n", "f", "i", "n", "i", "t", "y">> -> PosInfinity
    [] cs = <<"-", "I", "n", "f", "i", "n", "i", "t", "y">> -> NegInfinity
    [] Len(cs) > 0 /\ cs[1] = "-" -> ReadUnsigned(Tail(cs), -1)
    [] OTHER -> ReadUnsigned(cs, 1)

\* Two numbers are the same value (NaN taken as the value NaN).
SameNumber(a, b) ==
  /\ a.kind = b.kind
  /\ a.kind = "finite" => a.num * b.den = b.num * a.den

\* C21: the error thrown for an invalid maxConcurrent has a message that
\* contains the literal of the offending value: for every rejected value the
\* message ends with a complete literal (not preceded by a sign, a digit or
\* a point) that denotes exactly the value received.
C21_MessageNamesValue ==
  error = "RangeError" =>
    \E i \in 2..Len(message) :
      /\ SameNumber(ReadLiteral(SubSeq(message, i, Len(message))), arg)
      /\ ReadLiteral(SubSeq(message, i - 1, Len(message))).kind = "invalid"

\* C21 witness: new ConcurrencyLimiter({ maxConcurrent: -7 }) threw an error
\* whose message ends in "-7".
C21_Witness ==
  /\ arg = Num(-7, 1)
  /\ error = "RangeError"
  /\ Len(message) = 3
  /\ SubSeq(message, 2, 3) = <<"-", "7">>

\* Items submitted through http.request().
IsRequest(i) == http.closures[i] # <<>>

\* Items for which fetch has been called.
FetchedIds == {http.fetched[k].id : k \in 1..Len(http.fetched)}

\* Fetch calls started and not yet settled.
InFlight == {i \in FetchedIds : work[i].st = "pending"}

\* C22: HttpRequestLimiter caps in-flight fetches: fetch is called for a
\* request exactly when the limiter starts the request's item, once per
\* request and for requests only, so the fetch calls started and not yet
\* settled never exceed maxConcurrentRequests; and a request waiting at the
\* head of the queue gets its fetch issued once a running item has settled.
C22_FetchCapped ==
  /\ [](Cardinality(InFlight) <= maxConcurrent)
  /\ [](\A i \in Items :
          /\ i \in FetchedIds => IsRequest(i)
          /\ IsRequest(i) => (i \in FetchedIds <=> i \in StartedSet))
  /\ [](Len(http.fetched) = Cardinality(FetchedIds))
  /\ [][\A i \in Items :
          (i \notin FetchedIds /\ i \in FetchedIds') =>
             (i \notin StartedSet /\ i \in StartedSet')]_vars
  /\ \A h \in Items :
       (/\ Len(queue) > 0
        /\ Head(queue).id = h
        /\ IsRequest(h)
        /\ \E i \in Items : Completing(i)) ~> (h \in FetchedIds)

\* C22 witness: at maxConcurrentRequests = 1 two requests were made; the
\* second one waited, and its fetch is in flight now that the first fetch
\* has settled and its slot has been released.
C22_Witness ==
  /\ maxConcurrent = 1
  /\ IsRequest(1) /\ IsRequest(2)
  /\ 2 \in waited
  /\ work[1].st = "fulfilled"
  /\ released[1] = 1
  /\ InFlight = {2}

\* The name/value pairs a headers value stands for, whatever its form.
HeadersOf(h) == h.entries

\* C23: options merging in request(): the options passed to fetch are the
\* defaults overridden field by field by the per-call options, and the
\* headers passed are the union of the default and the per-call headers in
\* which the per-call value wins on a common name and a name on one side
\* only is kept (no headers at all when neither side has any).
C23_OptionsMerged ==
  \A k \in 1..Len(http.fetched) :
    LET passed == http.fetched[k].init
        d == http.defaultInit
        arg1 == Head(http.inits[http.fetched[k].id])
        i == IF arg1.kind = "undefined" THEN EmptyObject ELSE arg1.value
    IN  /\ passed.method = (IF i.method # Absent THEN i.method ELSE d.method)
        /\ passed.body = (IF i.body # Absent THEN i.body ELSE d.body)
        /\ \A name \in HeaderKeys :
             HeadersOf(passed.headers)[name] =
               (IF HeadersOf(i.headers)[name] # Absent
                THEN HeadersOf(i.headers)[name]
                ELSE HeadersOf(d.headers)[name])

\* C24: shared budget: tasks enqueued on http.limiter and requests made
\* through http.request() take slots of one counter and wait in one FIFO
\* queue: tasks and fetches running together never exceed
\* maxConcurrentRequests, activeCount counts both, an item of either kind
\* leaves the queue only when no item submitted before it still waits; and
\* http.stats equals the stats of http.limiter in every state.
C24_SharedBudget ==
  /\ [](Cardinality(Running) <= maxConcurrent)
  /\ [](activeCount = Cardinality(StartedNotReleased))
  /\ [][\A i \in QueueSet :
          i \notin QueueSet' =>
            /\ i \in StartedSet'
            /\ \A j \in QueueSet' : i < j]_vars
  /\ [](error = "none" =>
          /\ HttpStatsGetter(Cur) = StatsGetter(Cur)
          /\ HttpStatsGetter(Cur) = ExpectedStats)

\* C24 witness: at maxConcurrentRequests = 1 a task enqueued on http.limiter
\* holds the slot and a request made after it waits in the queue, its fetch
\* not yet called; http.stats shows one active and one waiting.
C24_Witness ==
  /\ maxConcurrent = 1
  /\ ~IsRequest(1) /\ IsRequest(2)
  /\ Running = {1}
  /\ QueueIds = <<2>>
  /\ FetchedIds = {}
  /\ HttpStatsGetter(Cur) =
       [maxConcurrent |-> 1, activeCount |-> 1, queueLength |-> 1]

\* The first limiter's own fields and item bookkeeping.
OwnVars == <<maxConcurrent, activeCount, queue, microtasks, work, handle,
             submitted, started, calls, released>>

\* C25: independent instances: of two separately constructed limiters, every
\* enqueue on the first and every completion of one of its tasks leaves the
\* second's activeCount and queue unchanged (and the other way round), and
\* the first's admission depends on its own activeCount and maxConcurrent
\* only, never on the second's load.
C25_IndependentInstances ==
  [][/\ OwnVars' # OwnVars =>
          /\ other'.activeCount = other.activeCount
          /\ other'.queue = other.queue
          /\ other' = other
     /\ other' # other => OwnVars' = OwnVars
     /\ OneCall =>
          ((submitted + 1) \in StartedSet' <=> activeCount < maxConcurrent)
    ]_vars

\* The second limiter is at capacity, nothing of it released yet, and the first
\* limiter's only item is running.
C25_Witness ==
  /\ other.activeCount = other.maxConcurrent
  /\ \A i \in Items : other.released[i] = 0
  /\ submitted = 1
  /\ StartedSet = {1}
  /\ activeCount = 1
  /\ queue = <<>>

\* The items whose work has settled while their slot is not released yet.
SettledUnreleased ==
  {i \in StartedSet : work[i].st \in Outcomes /\ released[i] = 0}

\* This step runs a caller's continuation on a handle: the job at the head of
\* the microtask queue is a reaction of a handle and the step consumes it.
ContRan ==
  /\ microtasks # <<>>
  /\ Head(microtasks).hop = "cont"
  /\ microtasks' = Tail(microtasks)

\* C26: immediate re-admission: when a running item's work settles and the
\* queue is non-empty, the next item is admitted before control goes to any
\* other code: no caller continuation (such as one attached to the finished
\* item's handle) runs between the settlement of the work's promise and the
\* start of the next queued item.
C26_ImmediateReadmission ==
  [][ContRan => ~(SettledUnreleased # {} /\ queue # <<>>)]_vars

\* The private state with capacity c and a running work functions, the
\* waiting items as they are: what one invocation of #drain may be given.
DrainInput(c, a) == [Cur EXCEPT !.maxConcurrent = c, !.activeCount = a]

\* The ids of the first n waiting items.
FirstWaiting(n) == [k \in 1..n |-> queue[k].id]

\* C27: admission runs to completion synchronously: an invocation of #drain
\* returns only when activeCount = maxConcurrent or the queue is empty; given K
\* free slots and at least K waiting items, the K items at the head of the
\* queue have all been started, in order, when that one invocation returns,
\* with no step of anything else between the starts. Between handlers the
\* limiter is therefore never left with a free slot and a waiting item.
C27_DrainRunsToCompletion ==
  /\ Len(queue) > 0 => activeCount = maxConcurrent
  /\ \A c \in 1..MaxCap : \A a \in 0..c :
       LET r == Drain(DrainInput(c, a))
           K == Min(c - a, Len(queue))
       IN  ~r.exc =>
             /\ r.activeCount = c \/ r.queue = <<>>
             /\ Len(r.started) >= Len(started) + K
             /\ SubSeq(r.started, 1, Len(started) + K)
                  = started \o FirstWaiting(K)
             /\ r.activeCount >= a + K
             /\ r.microtasks = microtasks

\* Two items wait behind a full limiter, and one invocation of #drain with
\* two slots free starts both of them.
C27_Witness ==
  /\ Len(queue) = 2
  /\ activeCount = maxConcurrent
  /\ \E c \in 1..MaxCap : \E a \in 0..c :
       LET r == Drain(DrainInput(c, a))
       IN  /\ c - a >= 2
           /\ ~r.exc
           /\ r.started = started \o FirstWaiting(2)
           /\ r.queue = <<>>

\* No element occurs twice in the sequence.
NoRepeats(seq) ==
  \A k, n \in 1..Len(seq) : k # n => seq[k] # seq[n]

\* C28: an item is never both waiting and running: it is taken out of the
\* queue before its work function is invoked, its work function is invoked at
\* most once over the limiter's lifetime, and an item that has been started
\* never re-enters the queue.
C28_WaitingOrRunning ==
  /\ [](/\ QueueSet \cap StartedSet = {}
        /\ NoRepeats(started)
        /\ NoRepeats(QueueIds)
        /\ QueueSet \cup StartedSet = 1..submitted)
  /\ [][/\ StartedSet \subseteq StartedSet'
        /\ SubSeq(started', 1, Len(started)) = started
        /\ \A i \in StartedSet : i \notin QueueSet']_vars

\* Item 2 waited and is now running, its work function invoked once, while
\* item 3 still waits.
C28_Witness ==
  /\ 2 \in waited
  /\ 2 \in StartedSet
  /\ work[2].st = "pending"
  /\ 3 \in QueueSet
  /\ released[1] = 1

\* This step runs the completion handler (.finally) of item i.
ReleaseStep(i) == released'[i] = released[i] + 1

\* The items pushed during this step, as the queue holds them.
Pushed ==
  [k \in 1..(submitted' - submitted) |->
     queue'[Len(queue') - (submitted' - submitted) + k]]

\* C29: effect of one release step: when a started item's completion handler
\* runs with a non-empty queue, exactly one item, the queue head, is started,
\* queueLength decreases by exactly 1 and activeCount is the same after the
\* step as before it; when it runs with an empty queue, nothing is started
\* and activeCount decreases by exactly 1. (An enqueue call that the started
\* work function makes before it returns has the effect of an enqueue at full
\* capacity on top of this: its item is behind the tail of the queue.)
C29_ReleaseStepEffect ==
  [][\A i \in Items :
       ReleaseStep(i) =>
         IF Len(queue) > 0
         THEN /\ started' = Append(started, Head(queue).id)
              /\ activeCount' = activeCount
              /\ queue' = Tail(queue) \o Pushed
              /\ submitted' = submitted => Len(queue') = Len(queue) - 1
         ELSE /\ started' = started
              /\ queue' = <<>>
              /\ submitted' = submitted
              /\ activeCount' = activeCount - 1]_vars

\* At capacity 1 item 1 has released its slot, its release step started item
\* 2 from the head of the queue, and item 3 waits behind it.
C29_Witness ==
  /\ maxConcurrent = 1
  /\ released[1] = 1
  /\ started = <<1, 2>>
  /\ 2 \in waited
  /\ queue = <<[id |-> 3, task |-> "async"]>>
  /\ work[2].st = "pending"

FlushRound(i, k) ==
  /\ microtasks # <<>>
  /\ Head(microtasks) = Job("flush", i, work[i].st, k)
  /\ microtasks' # microtasks

\* C31: bounded, timer-free recycling: after a started work function's
\* promise settles, the slot is released and the next queued item started
\* after a fixed number of promise reactions, the then, catch and finally
\* reactions of #run: the same number for fulfilment and rejection, with
\* nothing else needed (no timer, no polling, no later enqueue). Counted in
\* flushes: the release has not happened when the second await is over, it
\* has happened when the third is over, and so four flushes after the
\* settlement always suffice; from then on no free slot is left beside a
\* waiting item.
C31_BoundedRecycling ==
  [][\A i \in Items :
       /\ \A k \in 1..2 : FlushRound(i, k) => released[i] = 0
       /\ \A k \in 3..FlushRounds :
            FlushRound(i, k) =>
              /\ released[i] = 1
              /\ Len(queue) > 0 => activeCount = maxConcurrent]_vars

\* The fourth flush after the rejection of item 1 is about to end: the slot
\* of item 1 has been released and item 2, which had waited, runs.
C31_Witness ==
  /\ microtasks # <<>>
  /\ Head(microtasks) = Job("flush", 1, "rejected", FlushRounds)
  /\ work[1].st = "rejected"
  /\ released[1] = 1
  /\ 2 \in waited
  /\ started = <<1, 2>>
  /\ work[2].st = "pending"

\* C32: capacity is immutable: the maxConcurrent of a limiter never changes
\* after construction: no enqueue, completion or stats access alters it, and
\* stats.maxConcurrent equals the constructor argument in every reachable
\* state, as does the field of every object an access hands out.
C32_CapacityImmutable ==
  /\ [][maxConcurrent' = maxConcurrent]_vars
  /\ [](error = "none" =>
          /\ maxConcurrent * arg.den = arg.num
          /\ StatsGetter(Cur).maxConcurrent * arg.den = arg.num)
  /\ [][\A r \in Refs :
          (snaps'.ref[r] # snaps.ref[r] /\ snaps'.ref[r] # <<Scribbled>>) =>
            Head(snaps'.ref[r]).maxConcurrent * arg.den = arg.num]_vars

\* A limiter built with maxConcurrent: 2 has run an item to its release while
\* another one runs, and a stats access then still reported 2.
C32_Witness ==
  /\ arg = Num(2, 1)
  /\ released[1] = 1
  /\ work[2].st = "pending"
  /\ snaps.ref["stats2"] = <<[maxConcurrent |-> 2, activeCount |-> 1,
                              queueLength |-> 0]>>
  /\ maxConcurrent = 2

\* The places item i is in: waiting in the queue, started and not yet
\* released, released.
PlacesOf(i) ==
  {pl \in {"waiting", "running", "released"} :
     \/ pl = "waiting" /\ i \in QueueSet
     \/ pl = "running" /\ i \in StartedNotReleased
     \/ pl = "released" /\ released[i] >= 1}

\* C33: conservation of items: in every reachable state each submitted item
\* is in exactly one of three places (waiting in the queue, started and not
\* yet released, released) and an item not submitted is in none, so
\* submitted = queueLength + activeCount + released; activeCount is exactly
\* the number of started-not-released items, and no item is lost or
\* duplicated.
C33_Conservation ==
  /\ \A i \in Items :
       Cardinality(PlacesOf(i)) = IF i <= submitted THEN 1 ELSE 0
  /\ submitted = Len(queue) + activeCount + Releases
  /\ activeCount = Cardinality(StartedNotReleased)
  /\ Len(queue) = Cardinality(QueueSet)
  /\ Len(started) = Cardinality(StartedSet)
  /\ \A i \in Items : released[i] <= 1

\* Three items, one in each place: item 1 released, item 2 running in its
\* slot, item 3 waiting.
C33_Witness ==
  /\ maxConcurrent = 1
  /\ PlacesOf(1) = {"released"}
  /\ PlacesOf(2) = {"running"}
  /\ PlacesOf(3) = {"waiting"}
  /\ submitted = 3

\* This step runs the caller's continuation on the handle of item i.
ContStep(i) == ContRan /\ Head(microtasks).item = i

\* C34: outcome delivery precedes slot release: for every started item, its
\* resolve/reject callback is invoked strictly before activeCount is
\* decremented for it; so a continuation attached to the returned handle
\* runs while activeCount (and stats.activeCount) still counts the finished
\* item, and an enqueue made from such a continuation on a full limiter is
\* queued, not started.
C34_DeliveryBeforeRelease ==
  /\ [](\A i \in Items : released[i] >= 1 => calls[i] >= 1)
  /\ [][\A i \in Items :
          /\ released'[i] > released[i] => (calls[i] = 1 /\ Settled(handle[i]))
          /\ ContStep(i) =>
               /\ released[i] = 0
               /\ i \in StartedNotReleased
               /\ StatsGetter(Cur).activeCount = Cardinality(StartedNotReleased)
               /\ StatsGetter(Cur).activeCount >= 1
               /\ (OneCall /\ activeCount = maxConcurrent) =>
                    /\ (submitted + 1) \notin StartedSet'
                    /\ queue'[Len(queue')].id = submitted + 1
                    /\ activeCount' = activeCount]_vars

\* At capacity 1 the handle of item 1 has rejected and its continuation has
\* run; the .finally of item 1 is still to come, so activeCount is 1 and
\* item 2 waits in the queue.
C34_Witness ==
  /\ maxConcurrent = 1
  /\ handle[1].st = "rejected"
  /\ calls[1] = 1
  /\ released[1] = 0
  /\ microtasks = <<Job("finally", 1, "fulfilled", Undefined)>>
  /\ activeCount = 1
  /\ QueueIds = <<2>>

\* The place of id i in the invocation order of the next state (0: none).
StartPlace(i) ==
  IF \E k \in 1..Len(started') : started'[k] = i
  THEN CHOOSE k \in 1..Len(started') : started'[k] = i
  ELSE 0

\* This step starts the item at the head of the queue, whose work function
\* calls enqueue on the same limiter before it returns its promise.
ReentrantStart ==
  /\ queue # <<>>
  /\ Head(queue).task = "nest"
  /\ Head(queue).id \in StartedSet'

\* C35: re-entrant enqueue is safe: when a work function calls enqueue on the
\* same limiter synchronously during its own invocation, the slot of the
\* invoking item is already counted, the capacity bound and the
\* work-conservation invariant hold on return, and the newly submitted item is
\* not started before any item that was already waiting.
C35_ReentrantEnqueue ==
  /\ [][/\ activeCount' <= maxConcurrent'
        /\ activeCount' = Cardinality({i \in StartedSet' : released'[i] = 0})
        /\ Len(queue') > 0 => activeCount' = maxConcurrent'
        /\ \A c \in (submitted + 1)..submitted' : \A w \in QueueSet :
             c \in StartedSet' =>
               (w \in StartedSet' /\ StartPlace(w) < StartPlace(c))
        /\ ReentrantStart =>
             /\ submitted' = submitted + 1
             /\ handle'[submitted + 1] = Pending
             /\ work'[Head(queue).id] = Pending
             /\ (submitted + 1) \notin StartedSet'
             /\ queue' = Append(Tail(queue), [id |-> submitted + 1,
                                              task |-> "async"])
             /\ started' = Append(started, Head(queue).id)]_vars
  /\ [](started \o QueueIds = Ids(submitted))

\* At capacity 1 the release of item 1 has started item 2 out of the queue
\* and item 3, submitted last, waits behind a full limiter with a pending
\* handle: where a work function of item 2 that enqueues leaves the limiter.
C35_Witness ==
  /\ maxConcurrent = 1
  /\ activeCount = 1
  /\ released = [i \in Items |-> IF i = 1 THEN 1 ELSE 0]
  /\ started = <<1, 2>>
  /\ QueueIds = <<3>>
  /\ handle[3] = Pending
  /\ submitted = 3

\* The per-call options of request i as an object ({} when none was passed).
OwnInit(i) == OrEmpty(Head(http.inits[i]))

\* The values a plain object of headers has own properties for.
Supplied(h, name) == SpreadHeaders(h)[name]

\* C36: no header leakage between requests: request() never writes to the
\* stored default options or to the caller's per-call options, and what it
\* passes to fetch is made of this call's options and the stored defaults
\* only: a field or header that neither of the two supplies is absent from
\* the options passed, whatever earlier requests supplied, and this also
\* holds for requests that waited in the queue.
C36_NoHeaderLeak ==
  /\ [][http'.defaultInit = http.defaultInit]_vars
  /\ [][\A i \in Items :
          /\ http.inits[i] # <<>> => http'.inits[i] = http.inits[i]
          /\ http.closures[i] # <<>> => http'.closures[i] = http.closures[i]
       ]_vars
  /\ [](\A k \in 1..Len(http.fetched) :
          LET passed == http.fetched[k].init
              own == OwnInit(http.fetched[k].id)
              d == http.defaultInit
          IN  /\ passed.method \in {own.method, d.method}
              /\ passed.body \in {own.body, d.body}
              /\ (own.method = Absent /\ d.method = Absent) =>
                   passed.method = Absent
              /\ (own.body = Absent /\ d.body = Absent) =>
                   passed.body = Absent
              /\ \A name \in HeaderKeys :
                   /\ passed.headers.entries[name] \in
                        {Absent, Supplied(own.headers, name),
                         Supplied(d.headers, name)}
                   /\ (/\ own.headers.entries[name] = Absent
                       /\ d.headers.entries[name] = Absent) =>
                        passed.headers.entries[name] = Absent)

\* The first request supplied the header X-Id and a second request, made
\* with no options while the first one held the only slot, waited in the
\* queue: its fetch was issued without X-Id.
C36_Witness ==
  /\ maxConcurrent = 1
  /\ http.defaultInit = EmptyObject
  /\ Len(http.fetched) = 2
  /\ OwnInit(1).headers = OneHeader("record", "X-Id", "123")
  /\ http.fetched[1].init.headers.entries["X-Id"] = "123"
  /\ http.inits[2] = <<NoArgument>>
  /\ 2 \in waited
  /\ http.fetched[2].id = 2
  /\ http.fetched[2].init.headers.entries["X-Id"] = Absent

\* enqueue up to its call of #drain: the state #drain is entered with.
PushItem(s, task) ==
  [s EXCEPT !.submitted = @ + 1,
            !.handle[s.submitted + 1] = Pending,
            !.queue = Append(@, [id |-> s.submitted + 1, task |-> task])]

\* One pass of the loop body up to the call of item.task(): the head is
\* shifted out and its slot is claimed.
Claimed(s) ==
  [s EXCEPT !.queue = Tail(@),
            !.activeCount = @ + 1,
            !.started = Append(@, Head(s.queue).id)]

\* The loop condition of #drain.
SlotAndItem(s) == s.activeCount < s.maxConcurrent /\ Len(s.queue) > 0

\* The states with which #drain can be entered next from enqueue: a call made
\* now, by a caller or by a continuation.
EnqueueEntries == {PushItem(Cur, task) : task \in {k \in TaskKinds : Room(k)}}

\* ... and from the completion handler that is the next job, if it is one.
FinallyEntries ==
  IF microtasks # <<>> /\ Head(microtasks).hop = "finally"
  THEN {[Popped EXCEPT !.activeCount = @ - 1,
                       !.released[Head(microtasks).item] = @ + 1]}
  ELSE {}

\* ... and from the enqueue call that a work function makes while an outer
\* #drain, entered with x, is invoking it.
NestedEntries ==
  {PushItem(Claimed(x), "async") :
     x \in {y \in EnqueueEntries \cup FinallyEntries :
              SlotAndItem(y) /\ Head(y.queue).task = "nest"}}

====
